---- MODULE Spec2Model ----
(***************************************************************************)
(* ControlScheme (src/core/controllers.py): two input listener threads     *)
(* fan events out to the queues of the registered control policies while   *)
(* prompt threads call add_policy, which asks the synthesizer for a        *)
(* policy, clears the queues of the registered policies, registers the new *)
(* policy and runs its process().                                          *)
(***************************************************************************)
EXTENDS Integers, Sequences, FiniteSets, TLC

\* Bounds of the model.
MaxPolicies == 2        \* policy instances constructed in one run of the program
MaxInstances == 3       \* policy instances constructed in one run of the
                        \* worker's prompts against the mouse listener
MaxClicks == 2          \* mouse events published in one run
MaxKeys == 1            \* keyboard events published in one run

PolicyIds == 1..MaxInstances

\* The two pynput listener threads started by ControlScheme.__init__.
Listeners == {"on_click", "on_key_press"}

\* Threads that call add_policy: "main" runs TextInterface.start /
\* SpeechInterface.start (daemon left at its default, False), "worker" is an
\* application thread that calls add_policy(prompt, daemon=True).
Callers == {"main", "worker"}

\* Prompts read by TextInterface.start after strip(): empty or not.
Prompts == {"", "prompt"}

\* Functions handed to register_callback: __name__, identity, __doc__.
Functions ==
    { [name |-> "click",  fn |-> "click#1", doc |-> "click v1"],
      [name |-> "click",  fn |-> "click#2", doc |-> "click v2"],
      [name |-> "moveTo", fn |-> "moveTo#1", doc |-> "move the pointer"] }

\* The function an application registers at startup, before any prompt.
StartupFunctions == {f \in Functions : f.fn = "click#1"}

\* What the synthesizer call and the handling of its answer can come to.
Responses ==
    {"transport_error", "None", "exec_raises", "no_class", "ctor_raises", "policy"}

\* Python's None, the value of a function that ends without a return statement.
PyNone == "None"

\* Nothing printed.
NoLine == <<>>

\* print(f"Error generating policy: {e}")
ErrorLine(e) == <<"Error generating policy", e>>

\* No add_policy call has finished.
NoCall == [contacted |-> FALSE, outcome |-> "none", value |-> "none", line |-> NoLine]

NoEvent == [type |-> "none", action |-> "none", arg |-> "none", id |-> 0]
NoPolicy == 0
EmptyDict == <<>>

VARIABLES
    control_policies,   \* self.control_policies: list of policy instances
    callbacks,          \* self.callbacks: name -> [function, doc]
    event_queue,        \* policy.event_queue, per policy instance
    pstate,             \* per policy: Absent, Loaded, Running, Terminated, Failed
    pcallbacks,         \* policy.callbacks: name -> function
    pcode,              \* per policy: the answer its class was executed from
    pthread,            \* per policy: the thread its process() runs on
    lpc,                \* per listener: idle, or inside the fan-out loop
    levent,             \* per listener: the event dict of the running handler
    lidx,               \* per listener: position of the list iterator
    lcount,             \* per listener: events published so far
    pc,                 \* per caller: position in add_policy
    daemon,             \* per caller: the daemon argument of the running call
    policy,             \* per caller: the local variable policy
    cidx,               \* per caller: position of the clearing loop's iterator
    returned            \* the add_policy call that finished last: whether it
                        \* called the synthesizer, the exit it took, the value
                        \* it returned and the line it printed

shared == <<control_policies, callbacks, event_queue>>
pvars == <<pstate, pcallbacks, pcode, pthread>>
lvars == <<lpc, levent, lidx, lcount>>
cvars == <<pc, daemon, policy, cidx, returned>>
vars == <<control_policies, callbacks, event_queue, pstate, pcallbacks, pcode,
          pthread, lpc, levent, lidx, lcount, pc, daemon, policy, cidx,
          returned>>

\* ControlScheme.__init__ (and the state of threads that have not called yet).
Init ==
    /\ control_policies = <<>>
    /\ callbacks = EmptyDict
    /\ event_queue = [p \in PolicyIds |-> <<>>]
    /\ pstate = [p \in PolicyIds |-> "Absent"]
    /\ pcallbacks = [p \in PolicyIds |-> EmptyDict]
    /\ pcode = [p \in PolicyIds |-> "none"]
    /\ pthread = [p \in PolicyIds |-> "none"]
    /\ lpc = [l \in Listeners |-> "idle"]
    /\ levent = [l \in Listeners |-> NoEvent]
    /\ lidx = [l \in Listeners |-> 0]
    /\ lcount = [l \in Listeners |-> 0]
    /\ pc = [t \in Callers |-> "idle"]
    /\ daemon = [t \in Callers |-> FALSE]
    /\ policy = [t \in Callers |-> NoPolicy]
    /\ cidx = [t \in Callers |-> 0]
    /\ returned = NoCall

(***************************************************************************)
(* Listener threads                                                        *)
(***************************************************************************)

\* The event dict built by on_click.
ClickEvent(pressed, n) ==
    [type |-> "on_click",
     action |-> IF pressed THEN "press" ELSE "release",
     arg |-> "Button.left",
     id |-> n]

\* key.char for a character key, str(key) for a special key (AttributeError).
KeyStr(key) == IF key.char # "none" THEN key.char ELSE key.repr

\* The keys typed in a run, in order and cyclically: a character key, then a
\* special key, which has no char attribute.
Keys == << [char |-> "a", repr |-> "'a'"], [char |-> "none", repr |-> "Key.esc"] >>

\* The event dict built by on_key_press.
KeyEvent(key, n) ==
    [type |-> "on_key_press", action |-> "press", arg |-> KeyStr(key), id |-> n]

\* Events a listener publishes in one run.
MaxPublished(l) == IF l = "on_click" THEN MaxClicks ELSE MaxKeys

\* Mutant: put() places the event at the head of the queue.
Turn_at_head(l, event, i) ==
    IF i < Len(control_policies)
    THEN /\ event_queue' =
              [event_queue EXCEPT ![control_policies[i + 1]] = <<event>> \o @]
         /\ lpc' = [lpc EXCEPT ![l] = "loop"]
         /\ levent' = [levent EXCEPT ![l] = event]
         /\ lidx' = [lidx EXCEPT ![l] = i + 1]
    ELSE /\ lpc' = [lpc EXCEPT ![l] = "idle"]
         /\ levent' = [levent EXCEPT ![l] = NoEvent]
         /\ lidx' = [lidx EXCEPT ![l] = 0]
         /\ UNCHANGED event_queue

\* One turn of `for control_policy in self.control_policies: ...put(event)`
\* for the iterator at position i: the list iterator compares its index with
\* the list's current length; past the end the handler returns.
Turn(l, event, i) ==
    IF i < Len(control_policies)
    THEN /\ event_queue' =
              [event_queue EXCEPT ![control_policies[i + 1]] = Append(@, event)]
         /\ lpc' = [lpc EXCEPT ![l] = "loop"]
         /\ levent' = [levent EXCEPT ![l] = event]
         /\ lidx' = [lidx EXCEPT ![l] = i + 1]
    ELSE /\ lpc' = [lpc EXCEPT ![l] = "idle"]
         /\ levent' = [levent EXCEPT ![l] = NoEvent]
         /\ lidx' = [lidx EXCEPT ![l] = 0]
         /\ UNCHANGED event_queue

\* A listener callback is entered: the event is built, the for loop takes its
\* iterator over self.control_policies and makes its first turn.
Enter(l, event) ==
    /\ lpc[l] = "idle"
    /\ lcount[l] < MaxPublished(l)
    /\ lcount' = [lcount EXCEPT ![l] = @ + 1]
    /\ Turn(l, event, 0)
    /\ UNCHANGED <<control_policies, callbacks, pvars, cvars>>

\* pynput reports a click as a press followed by a release.
on_click(pressed) ==
    /\ pressed = (lcount["on_click"] % 2 = 0)
    /\ Enter("on_click", ClickEvent(pressed, lcount["on_click"] + 1))

on_key_press(key) ==
    /\ key = Keys[(lcount["on_key_press"] % Len(Keys)) + 1]
    /\ Enter("on_key_press", KeyEvent(key, lcount["on_key_press"] + 1))

\* A later turn of the fan-out loop of a running handler.
FanOut(l) ==
    /\ lpc[l] = "loop"
    /\ Turn(l, levent[l], lidx[l])
    /\ UNCHANGED <<control_policies, callbacks, lcount, pvars, cvars>>

(***************************************************************************)
(* Capability registry                                                     *)
(***************************************************************************)

\* self.callbacks[callback.__name__] = {'function': callback, 'doc': ...}
Registered(cbs, cb) ==
    [n \in DOMAIN cbs \cup {cb.name} |->
        IF n = cb.name THEN [function |-> cb.fn, doc |-> cb.doc] ELSE cbs[n]]

\* Mutant: the constructed policies hold the registry itself, not a copy.
register_callback_shared(cb) ==
    /\ callbacks' = Registered(callbacks, cb)
    /\ pcallbacks' =
          [p \in PolicyIds |->
              IF pstate[p] = "Absent" THEN pcallbacks[p]
              ELSE [n \in DOMAIN callbacks' |-> callbacks'[n].function]]
    /\ UNCHANGED <<control_policies, event_queue, pstate, pcode, pthread,
                   lvars, cvars>>

register_callback(cb) ==
    /\ callbacks' = Registered(callbacks, cb)
    /\ UNCHANGED <<control_policies, event_queue, pvars, lvars, cvars>>

\* ControlPolicy.__init__: {key: value['function'] for key, value in ...}
Snapshot(cbs) == [n \in DOMAIN cbs |-> cbs[n].function]

(***************************************************************************)
(* add_policy                                                              *)
(***************************************************************************)

NextPolicy == Cardinality({p \in PolicyIds : pstate[p] # "Absent"}) + 1

\* The daemon argument of a caller's calls: the front ends leave the default.
Daemon(t) == t = "worker"

\* The call returns to its caller: add_policy has no return statement.
Return(t, how, line) ==
    /\ pc' = [pc EXCEPT ![t] = "idle"]
    /\ returned' = [contacted |-> callbacks # EmptyDict,
                    outcome |-> how, value |-> PyNone, line |-> line]
    /\ policy' = [policy EXCEPT ![t] = NoPolicy]
    /\ cidx' = [cidx EXCEPT ![t] = 0]
    /\ daemon' = [daemon EXCEPT ![t] = FALSE]

\* Mutant: an answer that defines no DerivedControlPolicy falls back to an
\* instance of the base class.
generate_policy_code_fallback(r) ==
    IF callbacks = EmptyDict THEN "ValueError"
    ELSE CASE r \in {"policy", "no_class"} -> "instance"
           [] r = "None" -> "None"
           [] r = "transport_error" -> "APIError"
           [] r = "exec_raises" -> "Exception"
           [] r = "ctor_raises" -> "Exception"

\* Mutant: the decline marker is not recognised and is executed like code,
\* which defines no DerivedControlPolicy.
generate_policy_code_unmarked(r) ==
    IF callbacks = EmptyDict THEN "ValueError"
    ELSE CASE r = "policy" -> "instance"
           [] r = "transport_error" -> "APIError"
           [] r = "exec_raises" -> "Exception"
           [] r \in {"None", "no_class"} -> "KeyError"
           [] r = "ctor_raises" -> "Exception"

\* Mutant: the registry is not checked before the synthesizer is called.
generate_policy_code_unchecked(r) ==
    CASE r = "policy" -> "instance"
      [] r = "None" -> "None"
      [] r = "transport_error" -> "APIError"
      [] r = "exec_raises" -> "Exception"
      [] r = "no_class" -> "KeyError"
      [] r = "ctor_raises" -> "Exception"

\* generate_policy_code: what the call comes to for the synthesizer's answer r.
\* Without callbacks it raises before the synthesizer is called.
generate_policy_code(r) ==
    IF callbacks = EmptyDict THEN "ValueError"
    ELSE CASE r = "policy" -> "instance"
           [] r = "None" -> "None"
           [] r = "transport_error" -> "APIError"
           [] r = "exec_raises" -> "Exception"
           [] r = "no_class" -> "KeyError"
           [] r = "ctor_raises" -> "Exception"

\* Mutant: the queues of the registered policies are cleared before the
\* synthesizer is asked, so also when the call then ends in an error.
add_policy_clearing_first(t, d, r) ==
    /\ pc[t] = "idle"
    /\ CASE generate_policy_code(r) = "instance" ->
              /\ NextPolicy <= MaxInstances
              /\ pstate' = [pstate EXCEPT ![NextPolicy] = "Loaded"]
              /\ pcallbacks' = [pcallbacks EXCEPT ![NextPolicy] = Snapshot(callbacks)]
              /\ pcode' = [pcode EXCEPT ![NextPolicy] = r]
              /\ policy' = [policy EXCEPT ![t] = NextPolicy]
              /\ daemon' = [daemon EXCEPT ![t] = d]
              /\ pc' = [pc EXCEPT ![t] = "clear"]
              /\ cidx' = [cidx EXCEPT ![t] = 0]
              /\ UNCHANGED <<pthread, returned, event_queue>>
         [] generate_policy_code(r) = "None" ->
              /\ Return(t, "declined", NoLine)
              /\ UNCHANGED <<pvars, event_queue>>
         [] OTHER ->
              /\ Return(t, "error", ErrorLine(generate_policy_code(r)))
              /\ event_queue' =
                    [p \in PolicyIds |->
                        IF p \in {control_policies[i] : i \in DOMAIN control_policies}
                        THEN <<>> ELSE event_queue[p]]
              /\ UNCHANGED pvars
    /\ UNCHANGED <<control_policies, callbacks, lvars>>

\* add_policy up to the clearing loop: generate_policy_code and `if policy:`.
add_policy(t, d, r) ==
    /\ pc[t] = "idle"
    /\ CASE generate_policy_code(r) = "instance" ->
              /\ NextPolicy <= MaxInstances
              /\ pstate' = [pstate EXCEPT ![NextPolicy] = "Loaded"]
              /\ pcallbacks' = [pcallbacks EXCEPT ![NextPolicy] = Snapshot(callbacks)]
              /\ pcode' = [pcode EXCEPT ![NextPolicy] = r]
              /\ policy' = [policy EXCEPT ![t] = NextPolicy]
              /\ daemon' = [daemon EXCEPT ![t] = d]
              /\ pc' = [pc EXCEPT ![t] = "clear"]
              /\ cidx' = [cidx EXCEPT ![t] = 0]
              /\ UNCHANGED <<pthread, returned>>
         [] generate_policy_code(r) = "None" ->
              /\ Return(t, "declined", NoLine)
              /\ UNCHANGED pvars
         [] OTHER ->
              /\ Return(t, "error", ErrorLine(generate_policy_code(r)))
              /\ UNCHANGED pvars
    /\ UNCHANGED <<shared, lvars>>

\* One turn of the loop that clears the queues of the registered policies.
ClearQueues(t) ==
    /\ pc[t] = "clear"
    /\ IF cidx[t] < Len(control_policies)
       THEN /\ event_queue' =
                 [event_queue EXCEPT ![control_policies[cidx[t] + 1]] = <<>>]
            /\ cidx' = [cidx EXCEPT ![t] = @ + 1]
            /\ UNCHANGED pc
       ELSE /\ pc' = [pc EXCEPT ![t] = "append"]
            /\ cidx' = [cidx EXCEPT ![t] = 0]
            /\ UNCHANGED event_queue
    /\ UNCHANGED <<control_policies, callbacks, pvars, lvars,
                   daemon, policy, returned>>

\* self.control_policies.append(policy)
AppendPolicy(t) ==
    /\ pc[t] = "append"
    /\ control_policies' = Append(control_policies, policy[t])
    /\ pc' = [pc EXCEPT ![t] = "start"]
    /\ UNCHANGED <<callbacks, event_queue, pvars, lvars,
                   daemon, policy, cidx, returned>>

\* daemon: Thread(target=policy.process).start(); otherwise policy.process().
StartPolicy(t) ==
    /\ pc[t] = "start"
    /\ pstate' = [pstate EXCEPT ![policy[t]] = "Running"]
    /\ IF daemon[t]
       THEN /\ pthread' = [pthread EXCEPT ![policy[t]] = "own"]
            /\ Return(t, "accepted", NoLine)
       ELSE /\ pthread' = [pthread EXCEPT ![policy[t]] = t]
            /\ pc' = [pc EXCEPT ![t] = "process"]
            /\ UNCHANGED <<policy, cidx, daemon, returned>>
    /\ UNCHANGED <<shared, pcallbacks, pcode, lvars>>

(***************************************************************************)
(* process() of a generated policy                                         *)
(***************************************************************************)

\* self.event_queue.get() inside process().
ProcessGet(p) ==
    /\ pstate[p] = "Running"
    /\ event_queue[p] # <<>>
    /\ event_queue' = [event_queue EXCEPT ![p] = Tail(@)]
    /\ UNCHANGED <<control_policies, callbacks, pvars, lvars, cvars>>

\* Mutant: a process() that returns inside add_policy is called once more.
ProcessReturns_again(p) ==
    /\ pstate[p] = "Running"
    /\ pstate' = [pstate EXCEPT ![p] = "Terminated"]
    /\ pthread' = [pthread EXCEPT ![p] = "none"]
    /\ IF pthread[p] \in Callers
       THEN /\ pc' = [pc EXCEPT ![pthread[p]] = "start"]
            /\ UNCHANGED <<returned, policy, cidx, daemon>>
       ELSE UNCHANGED <<pc, returned, policy, cidx, daemon>>
    /\ UNCHANGED <<shared, pcallbacks, pcode, lvars>>

\* process() returns.
ProcessReturns(p) ==
    /\ pstate[p] = "Running"
    /\ pstate' = [pstate EXCEPT ![p] = "Terminated"]
    /\ pthread' = [pthread EXCEPT ![p] = "none"]
    /\ IF pthread[p] \in Callers
       THEN Return(pthread[p], "accepted", NoLine)
       ELSE UNCHANGED <<pc, returned, policy, cidx, daemon>>
    /\ UNCHANGED <<shared, pcallbacks, pcode, lvars>>

\* Mutant: the failure of a process() also drops what the queues hold.
ProcessRaises_flushing(p) ==
    /\ pstate[p] = "Running"
    /\ pstate' = [pstate EXCEPT ![p] = "Failed"]
    /\ pthread' = [pthread EXCEPT ![p] = "none"]
    /\ event_queue' = [q \in PolicyIds |-> <<>>]
    /\ IF pthread[p] \in Callers
       THEN Return(pthread[p], "accepted", ErrorLine("Exception"))
       ELSE UNCHANGED <<pc, returned, policy, cidx, daemon>>
    /\ UNCHANGED <<control_policies, callbacks, pcallbacks, pcode, lvars>>

\* process() raises an Exception: on the policy's own thread the thread ends,
\* inside add_policy the except clause prints and the call returns.
ProcessRaises(p) ==
    /\ pstate[p] = "Running"
    /\ pstate' = [pstate EXCEPT ![p] = "Failed"]
    /\ pthread' = [pthread EXCEPT ![p] = "none"]
    /\ IF pthread[p] \in Callers
       THEN Return(pthread[p], "accepted", ErrorLine("Exception"))
       ELSE UNCHANGED <<pc, returned, policy, cidx, daemon>>
    /\ UNCHANGED <<shared, pcallbacks, pcode, lvars>>

(***************************************************************************)
(* Prompt front ends                                                       *)
(***************************************************************************)

\* The interpreter lives until the main thread leaves TextInterface.start: the
\* listeners and the policy threads are daemon threads and end with it.
Alive == pc["main"] # "exited"

\* One turn of TextInterface.start: an empty prompt leaves the loop.
TextInterface_start(prompt) ==
    /\ pc["main"] = "idle"
    /\ IF prompt = ""
       THEN /\ pc' = [pc EXCEPT !["main"] = "exited"]
            /\ UNCHANGED <<shared, pvars, lvars, daemon, policy, cidx, returned>>
       ELSE \E r \in Responses : add_policy("main", Daemon("main"), r)

\* An application thread calls add_policy(prompt, daemon=True).
WorkerCall == \E r \in Responses : add_policy("worker", Daemon("worker"), r)

Next ==
    /\ Alive
    /\ \/ \E pressed \in BOOLEAN : on_click(pressed)
       \/ \E key \in {Keys[i] : i \in DOMAIN Keys} : on_key_press(key)
       \/ \E l \in Listeners : FanOut(l)
       \/ \E cb \in StartupFunctions : register_callback(cb)
       \/ \E prompt \in Prompts : TextInterface_start(prompt)
       \/ WorkerCall
       \/ \E t \in Callers : ClearQueues(t)
       \/ \E t \in Callers : AppendPolicy(t)
       \/ \E t \in Callers : StartPolicy(t)
       \/ \E p \in PolicyIds : ProcessGet(p)
       \/ \E p \in PolicyIds : ProcessReturns(p)
       \/ \E p \in PolicyIds : ProcessRaises(p)
    /\ \A p \in PolicyIds : p > MaxPolicies => pstate'[p] = "Absent"

Spec == Init /\ [][Next]_vars

\* The program with the mouse as its only source of events.
MouseNext ==
    /\ Alive
    /\ \/ \E pressed \in BOOLEAN : on_click(pressed)
       \/ FanOut("on_click")
       \/ \E cb \in StartupFunctions : register_callback(cb)
       \/ \E prompt \in Prompts : TextInterface_start(prompt)
       \/ WorkerCall
       \/ \E t \in Callers : ClearQueues(t)
       \/ \E t \in Callers : AppendPolicy(t)
       \/ \E t \in Callers : StartPolicy(t)
       \/ \E p \in PolicyIds : ProcessGet(p)
       \/ \E p \in PolicyIds : ProcessReturns(p)
       \/ \E p \in PolicyIds : ProcessRaises(p)
    /\ \A p \in PolicyIds : p > MaxPolicies => pstate'[p] = "Absent"

MouseSpec == Init /\ [][MouseNext]_vars

\* The registry under every registration order, with the prompt threads and
\* the policies they start, and no input events.
RegistryNext ==
    /\ Alive
    /\ \/ \E cb \in Functions : register_callback(cb)
       \/ \E prompt \in Prompts : TextInterface_start(prompt)
       \/ WorkerCall
       \/ \E t \in Callers : ClearQueues(t)
       \/ \E t \in Callers : AppendPolicy(t)
       \/ \E t \in Callers : StartPolicy(t)
       \/ \E p \in PolicyIds : ProcessReturns(p)
       \/ \E p \in PolicyIds : ProcessRaises(p)
    /\ \A p \in PolicyIds : p > MaxPolicies => pstate'[p] = "Absent"

RegistrySpec == Init /\ [][RegistryNext]_vars

\* An application thread submits prompts with daemon=True while the mouse
\* listener publishes; the policies are of the kind that reads no event and
\* does not end (the synthesizer is told to read events only on request).
WorkerNext ==
    \/ \E pressed \in BOOLEAN : on_click(pressed)
    \/ FanOut("on_click")
    \/ \E cb \in StartupFunctions : register_callback(cb)
    \/ WorkerCall
    \/ ClearQueues("worker")
    \/ AppendPolicy("worker")
    \/ StartPolicy("worker")

WorkerSpec == Init /\ [][WorkerNext]_vars

(***************************************************************************)
(* Properties                                                              *)
(***************************************************************************)

Registered_policies == {control_policies[i] : i \in DOMAIN control_policies}

\* The step puts the event of listener l's running handler on p's queue.
Puts(l, p) ==
    /\ lidx'[l] # lidx[l]
    /\ lidx'[l] >= 1
    /\ lidx'[l] <= Len(control_policies)
    /\ control_policies[lidx'[l]] = p

\* What every step in which thread t's add_policy reaches the synthesizer
\* satisfies.
CallStep(t) ==
    /\ pc[t] = "idle"
    /\ callbacks # EmptyDict
    /\ lpc' = lpc
    /\ lcount' = lcount
    /\ event_queue' = event_queue

\* Event e is ahead of event f in the sequence q.
Ahead(q, e, f) ==
    \E i, j \in DOMAIN q : i < j /\ q[i] = e /\ q[j] = f

InQueue(q, e) == \E i \in DOMAIN q : q[i] = e

\* C1: any two events that are both in the queues of two policies are in the
\* same relative order in the two queues.
OrderEquivalence ==
    \A p, q \in PolicyIds :
        \A i, j \in DOMAIN event_queue[p] :
            (/\ i < j
             /\ InQueue(event_queue[q], event_queue[p][i])
             /\ InQueue(event_queue[q], event_queue[p][j]))
            => Ahead(event_queue[q], event_queue[p][i], event_queue[p][j])

\* C2: when add_policy appends the new policy, and when it starts the new
\* policy's process(), the queue of every policy registered before is empty
\* and that policy is interrupted or terminated.
PriorFlushedAtRegistration ==
    [][\A t \in Callers :
          (AppendPolicy(t) \/ StartPolicy(t)) =>
              \A q \in Registered_policies \ {policy[t]} :
                  /\ event_queue[q] = <<>>
                  /\ pstate[q] \in {"Interrupted", "Terminated"}]_vars

\* C3: a handler entered once two policies are registered puts its event on
\* no queue of the first policy (entering makes the loop's first turn).
NoLateEventForFirstPolicy ==
    [][\A l \in Listeners :
          (lpc[l] = "idle" /\ Len(control_policies) >= 2) =>
              ~Puts(l, control_policies[1])]_vars

\* C4: no step of add_policy up to and including the registration of the new
\* policy changes the queue of a policy registered before.
RegistrationKeepsQueues ==
    [][\A t \in Callers :
          (ClearQueues(t) \/ AppendPolicy(t)) =>
              \A q \in Registered_policies : event_queue'[q] = event_queue[q]]_vars

\* C5: the step in which a policy's process() fails changes no list, no queue
\* and no other policy, stops no listener and no caller (the caller it ran
\* in returns from add_policy); and no step takes a policy off the list.
FailureIsolated ==
    [][/\ \A p \in PolicyIds :
            (pstate[p] = "Running" /\ pstate'[p] = "Failed") =>
                /\ control_policies' = control_policies
                /\ event_queue' = event_queue
                /\ lvars' = lvars
                /\ \A q \in PolicyIds \ {p} :
                      pstate'[q] = pstate[q] /\ pthread'[q] = pthread[q]
                /\ \A t \in Callers :
                      IF pthread[p] = t THEN pc'[t] = "idle" ELSE pc'[t] = pc[t]
       /\ \A i \in DOMAIN control_policies :
            i \in DOMAIN control_policies' /\ control_policies'[i] = control_policies[i]
      ]_vars

\* A policy run inside add_policy has failed while another policy, started on
\* its own thread, runs on and has an event in its queue.
FailureIsolatedWitness ==
    \E p, q \in Registered_policies :
        /\ pstate[p] = "Failed"
        /\ returned.outcome = "accepted"
        /\ returned.line = ErrorLine("Exception")
        /\ pstate[q] = "Running"
        /\ pthread[q] = "own"
        /\ event_queue[q] # <<>>

\* C6: every running policy runs on a thread of its own, so that no prompt
\* thread waits inside a policy's process().
PolicyOnOwnThread ==
    \A p \in PolicyIds : pstate[p] = "Running" => pthread[p] = "own"

\* C7: an add_policy call whose synthesizer answer is the decline marker
\* returns without changing the list, any queue or any policy.
DeclineChangesNothing ==
    [][\A t \in Callers :
          (CallStep(t) /\ add_policy(t, Daemon(t), "None")) =>
              /\ UNCHANGED <<control_policies, event_queue, pstate, pthread,
                             pcallbacks, pcode>>
              /\ pc'[t] = "idle"
              /\ returned'.outcome = "declined"]_vars

\* A call was declined while a registered policy held an event.
DeclineWitness ==
    \E p \in Registered_policies :
        /\ returned.outcome = "declined"
        /\ event_queue[p] # <<>>

Malformed == {"exec_raises", "no_class", "ctor_raises"}

\* C8: no policy that is loaded, registered, running or finished comes from
\* a malformed answer: such a candidate is never appended or started.
MalformedNeverRuns ==
    \A p \in PolicyIds :
        (pstate[p] # "Absent" \/ p \in Registered_policies) =>
            pcode[p] \notin Malformed

\* A call ended on an answer that defines no DerivedControlPolicy while a
\* policy was registered.
MalformedWitness ==
    /\ returned.outcome = "error"
    /\ returned.line = ErrorLine("KeyError")
    /\ control_policies # <<>>

\* C9: an add_policy call that ends differently from the call that
\* finished before it (accepted, declined, error) returns a different value.
SubmissionResultDistinguishes ==
    [][(/\ returned.outcome # "none"
        /\ returned'.outcome # returned.outcome)
       => returned'.value # returned.value]_vars

\* C10: a name that is registered keeps its function and documentation.
DuplicateRegistrationRejected ==
    [][\A n \in DOMAIN callbacks :
          n \in DOMAIN callbacks' /\ callbacks'[n] = callbacks[n]]_vars

\* C11: a policy whose process() has returned or raised is no longer in
\* control_policies.
FinishedPolicyRemoved ==
    \A p \in PolicyIds :
        pstate[p] \in {"Terminated", "Failed"} => p \notin Registered_policies

\* C12: once an add_policy call has finished its clearing loop and no
\* handler is running, an event held by the queue of the first registered
\* policy is held by the queue of every policy registered before the call
\* (with policies that read no event, under WorkerSpec: the handler that put
\* it on the first queue after the clearing was entered with all of them
\* registered).
EventOnAllPriorQueues ==
    (/\ pc["worker"] = "append"
     /\ \A l \in Listeners : lpc[l] = "idle")
    => \A j \in DOMAIN control_policies :
          \A i \in DOMAIN event_queue[control_policies[1]] :
              InQueue(event_queue[control_policies[j]],
                      event_queue[control_policies[1]][i])

\* C13: an add_policy call that ends in an error raised by
\* generate_policy_code (the caller is back where it called from, and no
\* listener or registry step is part of the call) leaves control_policies,
\* every queue and every policy as they were, and prints the error.
ErrorKeepsState ==
    [][(pc' = pc /\ lcount' = lcount /\ lpc' = lpc /\ callbacks' = callbacks) =>
          \A t \in {u \in Callers : pc[u] = "idle"} :
              \A r \in {x \in Responses :
                            generate_policy_code(x) \notin {"instance", "None"}} :
                  add_policy(t, Daemon(t), r)
                  => /\ UNCHANGED <<control_policies, event_queue, pvars>>
                     /\ returned'.outcome = "error"
                     /\ returned'.line = ErrorLine(generate_policy_code(r))]_vars

\* The synthesizer call failed while a registered policy held an event.
ErrorKeepsStateWitness ==
    /\ returned.outcome = "error"
    /\ returned.line = ErrorLine("APIError")
    /\ \E p \in Registered_policies : event_queue[p] # <<>>

\* C14: the call that registers second has cleared the queue of the policy
\* registered first: no call registers its policy while another call is past
\* its clearing loop and has not registered yet (that call would register
\* second with a clearing loop that never saw the first policy).
RegistrationsSerialized ==
    [][\A t, u \in Callers :
          (t # u /\ AppendPolicy(u)) => pc[t] # "append"]_vars

SourceOrderKept ==
    \A p \in PolicyIds :
        \A i, j \in DOMAIN event_queue[p] :
            (i < j /\ event_queue[p][i].type = event_queue[p][j].type)
            => event_queue[p][i].id < event_queue[p][j].id

\* A queue holds two clicks with a key press between them, while another
\* policy has already read its first click.
SourceOrderKeptWitness ==
    \E p, q \in Registered_policies :
        /\ Len(event_queue[p]) = 3
        /\ event_queue[p][1].type = "on_click"
        /\ event_queue[p][2].type = "on_key_press"
        /\ event_queue[p][3].type = "on_click"
        /\ Len(event_queue[q]) = 2
        /\ event_queue[q][1].type = "on_key_press"

\* C17: a register_callback call made after a policy was constructed, with a
\* new or with a registered name, enters the function in the registry and
\* leaves the name-to-function mapping of every constructed policy unchanged.
CapabilitySnapshot ==
    [][\A cb \in Functions :
          (/\ callbacks' # callbacks
           /\ register_callback(cb))
          => /\ callbacks'[cb.name] = [function |-> cb.fn, doc |-> cb.doc]
             /\ \A p \in PolicyIds :
                   pstate[p] # "Absent" => pcallbacks'[p] = pcallbacks[p]]_vars

\* A constructed policy holds click as it was registered at its construction
\* and lacks moveTo, while the registry has the replaced click and moveTo.
CapabilitySnapshotWitness ==
    \E p \in PolicyIds :
        /\ pstate[p] # "Absent"
        /\ DOMAIN pcallbacks[p] = {"click"}
        /\ pcallbacks[p]["click"] = "click#1"
        /\ DOMAIN callbacks = {"click", "moveTo"}
        /\ callbacks["click"].function = "click#2"

\* C18: while no callback is registered, every add_policy call ends with the
\* ValueError printed and the synthesizer not contacted, and changes no list,
\* queue or policy; and no policy exists while the registry is empty.
EmptyRegistryRejects ==
    [][/\ \A t \in Callers : \A r \in Responses :
            (/\ pc[t] = "idle"
             /\ callbacks = EmptyDict
             /\ add_policy(t, Daemon(t), r))
            => /\ returned' = [contacted |-> FALSE, outcome |-> "error",
                               value |-> PyNone, line |-> ErrorLine("ValueError")]
               /\ pc'[t] = "idle"
               /\ UNCHANGED <<control_policies, event_queue, pvars>>
       /\ callbacks = EmptyDict =>
            /\ control_policies = <<>>
            /\ \A p \in PolicyIds : pstate[p] = "Absent"
       /\ callbacks' = EmptyDict =>
            /\ control_policies' = <<>>
            /\ \A p \in PolicyIds : pstate'[p] = "Absent"
      ]_vars

\* A prompt was rejected for the empty registry.
EmptyRegistryWitness ==
    /\ callbacks = EmptyDict
    /\ returned.outcome = "error"
    /\ returned.line = ErrorLine("ValueError")
    /\ ~returned.contacted

====
